---- MODULE Spec2Model ----
(***************************************************************************)
(* Model of the AI_Stat commit-log statistics pipeline.                    *)
(*                                                                         *)
(* The repository holds two variants of one program:                       *)
(*   src/repo/main.go      identity line  <id> '<name>' <email> <ts> <msg> *)
(*                         statistics per author, keyed by e-mail          *)
(*   src/unnamed/part_000  identity line  <id> '<name>' <ts> <msg>         *)
(*                         one bucket of statistics, map[string]int        *)
(* The variable `variant` selects the one a behaviour runs ("email" or     *)
(* "name").  Text is modelled as TLA+ strings, character by character.     *)
(*                                                                         *)
(* Abstractions: Go's int is 64 bits wide and float64 is binary; the model *)
(* uses unbounded integers and exact decimal fractions.  The inputs drawn  *)
(* below keep every number far inside both ranges, and every product       *)
(* lines * ratio they produce is exact in float64 as well.                 *)
(***************************************************************************)
EXTENDS Integers, Sequences, FiniteSets, TLC

VARIABLES
    variant,      \* which program runs: "email" (main.go) or "name" (part_000)
    pc,           \* position of main(): "split", "analyze", "print", "done"
    chunks,       \* the commit chunks the raw text was joined from (input)
    output,       \* runGitCommand's result: the raw log text
    commits,      \* splitCommits' result
    idx,          \* analyzeCommits: number of commits already looped over
    authorStats,  \* main.go: map[string]*AuthorStats
    stats,        \* part_000: map[string]int
    folded,       \* history: what each loop iteration processed and produced
    pending,      \* fold specification: the commits not yet folded
    arg,          \* function specifications: the input drawn
    ret           \* function specifications: the result of the call

vars == <<variant, pc, chunks, output, commits, idx, authorStats, stats,
          folded, pending, arg, ret>>

----------------------------------------------------------------------------
(* Strings                                                                 *)

Ch(s, i) == SubSeq(s, i, i)

Digits == {"0", "1", "2", "3", "4", "5", "6", "7", "8", "9"}

LowerHex == Digits \cup {"a", "b", "c", "d", "e", "f"}

\* unicode.IsSpace, restricted to the characters a TLA+ string can hold
Space == {" ", "\t", "\n", "\r", "\f"}

DigitVal(c) == CHOOSE d \in 0..9 : Ch("0123456789", d + 1) = c

\* the first position >= i of s holding character c, or Len(s) + 1
RECURSIVE IndexFrom(_, _, _)
IndexFrom(s, c, i) ==
    IF i > Len(s) THEN Len(s) + 1
    ELSE IF Ch(s, i) = c THEN i
    ELSE IndexFrom(s, c, i + 1)

\* the first position >= i of s whose character is (in = TRUE) or is not
\* (in = FALSE) a member of set, or Len(s) + 1
RECURSIVE Scan(_, _, _, _)
Scan(s, i, set, in) ==
    IF i > Len(s) THEN Len(s) + 1
    ELSE IF (Ch(s, i) \in set) = in THEN i
    ELSE Scan(s, i + 1, set, in)

HasPrefixAt(s, i, p) ==
    /\ i + Len(p) - 1 <= Len(s)
    /\ SubSeq(s, i, i + Len(p) - 1) = p

HasSuffix(s, p) ==
    /\ Len(p) <= Len(s)
    /\ SubSeq(s, Len(s) - Len(p) + 1, Len(s)) = p

\* strings.Split(s, c) for a one-character separator
RECURSIVE SplitFrom(_, _, _)
SplitFrom(s, c, i) ==
    LET j == IndexFrom(s, c, i)
    IN  IF j > Len(s) THEN <<SubSeq(s, i, Len(s))>>
        ELSE <<SubSeq(s, i, j - 1)>> \o SplitFrom(s, c, j + 1)

Split(s, c) == SplitFrom(s, c, 1)

\* strings.SplitN(s, c, n), n >= 1: at most n parts, the last one unsplit
RECURSIVE SplitNFrom(_, _, _, _)
SplitNFrom(s, c, i, n) ==
    LET j == IndexFrom(s, c, i)
    IN  IF n = 1 \/ j > Len(s) THEN <<SubSeq(s, i, Len(s))>>
        ELSE <<SubSeq(s, i, j - 1)>> \o SplitNFrom(s, c, j + 1, n - 1)

SplitN(s, c, n) == SplitNFrom(s, c, 1, n)

\* strings.Fields(s)
RECURSIVE FieldsFrom(_, _)
FieldsFrom(s, i) ==
    LET b == Scan(s, i, Space, FALSE)
        e == Scan(s, b, Space, TRUE)
    IN  IF b > Len(s) THEN <<>>
        ELSE <<SubSeq(s, b, e - 1)>> \o FieldsFrom(s, e)

Fields(s) == FieldsFrom(s, 1)

\* strings.Join(parts, sep)
RECURSIVE Join(_, _)
Join(parts, sep) ==
    IF Len(parts) = 0 THEN ""
    ELSE IF Len(parts) = 1 THEN parts[1]
    ELSE parts[1] \o sep \o Join(Tail(parts), sep)

\* strings.Trim(s, c) for a one-character cutset
Trim(s, c) ==
    LET b == Scan(s, 1, {c}, FALSE)
    IN  IF b > Len(s) THEN ""
        ELSE LET e == CHOOSE k \in b..Len(s) :
                        /\ Ch(s, k) # c
                        /\ \A m \in (k + 1)..Len(s) : Ch(s, m) = c
             IN  SubSeq(s, b, e)

\* the value of a string of decimal digits
RECURSIVE DigitsVal(_)
DigitsVal(s) ==
    IF Len(s) = 0 THEN 0
    ELSE 10 * DigitsVal(SubSeq(s, 1, Len(s) - 1)) + DigitVal(Ch(s, Len(s)))

AllDigits(s) == \A k \in 1..Len(s) : Ch(s, k) \in Digits

\* strconv.Atoi: an optional sign and at least one digit; on a syntax error
\* the value is 0
Atoi(s) ==
    LET signed == Len(s) > 0 /\ Ch(s, 1) \in {"+", "-"}
        body   == IF signed THEN SubSeq(s, 2, Len(s)) ELSE s
        ok     == Len(body) > 0 /\ AllDigits(body)
    IN  [ok  |-> ok,
         val |-> IF ~ok THEN 0
                 ELSE IF signed /\ Ch(s, 1) = "-" THEN 0 - DigitsVal(body)
                 ELSE DigitsVal(body)]

----------------------------------------------------------------------------
(* Configuration constants (const block of both variants)                  *)

HashLen == 40

includeFileExts == ".html,.vue,.js,.ts,.tsx,.css,.scss,.cjs,.go,.php,.yaml,.proto"

excludeFileExts == ".pb.go,.pb.validate.go"

includeExts == Split(includeFileExts, ",")

excludeExts == Split(excludeFileExts, ",")

----------------------------------------------------------------------------
(* File change classifier                                                  *)

\* filepath.Ext: the suffix from the last dot of the last path element
RECURSIVE ExtFrom(_, _)
ExtFrom(path, i) ==
    IF i < 1 \/ Ch(path, i) = "/" THEN ""
    ELSE IF Ch(path, i) = "." THEN SubSeq(path, i, Len(path))
    ELSE ExtFrom(path, i - 1)

Ext(path) == ExtFrom(path, Len(path))

isFileChangeLine(line) ==
    LET parts == Fields(line)
    IN  /\ Len(parts) >= 2
        /\ \A k \in 1..2 : parts[k] = "-" \/ Atoi(parts[k]).ok

parseFileChange(change) ==
    LET parts == Fields(change)
    IN  IF Len(parts) < 3 THEN [added |-> 0, deleted |-> 0, fileName |-> ""]
        ELSE [added    |-> Atoi(parts[1]).val,
              deleted  |-> Atoi(parts[2]).val,
              fileName |-> IF Len(parts) > 3
                           THEN Join(SubSeq(parts, 3, Len(parts)), "")
                           ELSE parts[3]]

isValidFile(fileName, incl, excl) ==
    LET ext == Ext(fileName)
    IN  IF \E k \in 1..Len(excl) : ext = excl[k] THEN FALSE
        ELSE \E k \in 1..Len(incl) : ext = incl[k]

\* processCommit's loop body over one line of the file-change block: what
\* the line adds to stats.AddedLines and stats.DeletedLines
fileChangeDelta(change) ==
    IF change = "" THEN [added |-> 0, deleted |-> 0]
    ELSE LET p == parseFileChange(change)
         IN  IF ~isValidFile(p.fileName, includeExts, excludeExts)
             THEN [added |-> 0, deleted |-> 0]
             ELSE [added |-> p.added, deleted |-> p.deleted]

RECURSIVE sumFileChanges(_, _)
sumFileChanges(lines, i) ==
    IF i > Len(lines) THEN [added |-> 0, deleted |-> 0]
    ELSE LET d == fileChangeDelta(lines[i])
             r == sumFileChanges(lines, i + 1)
         IN  [added |-> d.added + r.added, deleted |-> d.deleted + r.deleted]

----------------------------------------------------------------------------
(* AI ratio and fix extraction                                             *)

\* a ratio is the exact decimal num / den, den a power of ten, in lowest
\* decimal terms
RECURSIVE Pow10(_)
Pow10(n) == IF n = 0 THEN 1 ELSE 10 * Pow10(n - 1)

RECURSIVE NormRatio(_, _)
NormRatio(num, den) ==
    IF den > 1 /\ num % 10 = 0 THEN NormRatio(num \div 10, den \div 10)
    ELSE [num |-> num, den |-> den]

ZeroRatio == [num |-> 0, den |-> 1]

NumberChars == Digits \cup {"."}

\* strconv.ParseFloat on a string of digits and dots: at most one dot and at
\* least one digit
ParseFloat(s) ==
    LET dot  == IndexFrom(s, ".", 1)
        int  == SubSeq(s, 1, dot - 1)
        frac == SubSeq(s, dot + 1, Len(s))
        ok   == /\ AllDigits(int)
                /\ AllDigits(frac)
                /\ Len(int) + Len(frac) > 0
    IN  [ok  |-> ok,
         val |-> IF ok THEN NormRatio(DigitsVal(int \o frac), Pow10(Len(frac)))
                 ELSE ZeroRatio]

\* \s of the regular expression syntax
RegexSpace == {" ", "\t", "\n", "\r", "\f"}

\* aigPattern `AIG:(\s*([0-9.]+))`: the second group of its leftmost match
\* searched from position i, or no match
RECURSIVE aigRegexFind(_, _)
aigRegexFind(s, i) ==
    IF i + 3 > Len(s) THEN [found |-> FALSE, group2 |-> ""]
    ELSE IF ~HasPrefixAt(s, i, "AIG:") THEN aigRegexFind(s, i + 1)
    ELSE LET b == Scan(s, i + 4, RegexSpace, FALSE)
             e == Scan(s, b, NumberChars, FALSE)
         IN  IF e > b THEN [found |-> TRUE, group2 |-> SubSeq(s, b, e - 1)]
             ELSE aigRegexFind(s, i + 1)

\* the pattern without its \s*: `AIG:([0-9.]+)`
RECURSIVE aigRegexFindNoSpace(_, _)
aigRegexFindNoSpace(s, i) ==
    IF i + 3 > Len(s) THEN [found |-> FALSE, group2 |-> ""]
    ELSE IF ~HasPrefixAt(s, i, "AIG:") THEN aigRegexFindNoSpace(s, i + 1)
    ELSE LET e == Scan(s, i + 4, NumberChars, FALSE)
         IN  IF e > i + 4 THEN [found |-> TRUE, group2 |-> SubSeq(s, i + 4, e - 1)]
             ELSE aigRegexFindNoSpace(s, i + 1)

extractAIGRatioNoSpace(commit) ==
    LET m == aigRegexFindNoSpace(commit, 1)
    IN  IF m.found
        THEN LET r == ParseFloat(m.group2)
             IN  IF ~r.ok \/ r.val.num < 0 THEN ZeroRatio ELSE r.val
        ELSE ZeroRatio

extractAIGRatio(commit) ==
    LET m == aigRegexFind(commit, 1)
    IN  IF m.found
        THEN LET r == ParseFloat(m.group2)
             IN  IF ~r.ok \/ r.val.num < 0 THEN ZeroRatio ELSE r.val
        ELSE ZeroRatio

\* s holds, from position i on, the characters of mask, where # in the mask
\* stands for any decimal digit
HasMaskAt(s, i, mask) ==
    /\ i + Len(mask) - 1 <= Len(s)
    /\ \A k \in 1..Len(mask) :
          IF Ch(mask, k) = "#" THEN Ch(s, i + k - 1) \in Digits
          ELSE Ch(s, i + k - 1) = Ch(mask, k)

\* the common head of fixPattern and commitPattern, `^[0-9a-f]{40} '[^']+' `
\* and the time stamp: the position after the time stamp, or 0 for no match
headerEnd(line) ==
    LET q == IndexFrom(line, "'", HashLen + 3)
    IN  IF /\ Len(line) >= HashLen + 2
           /\ \A k \in 1..HashLen : Ch(line, k) \in LowerHex
           /\ Ch(line, HashLen + 1) = " "
           /\ Ch(line, HashLen + 2) = "'"
           /\ q > HashLen + 3
           /\ q <= Len(line)
           /\ HasMaskAt(line, q + 1, " ####-##-## ##:##:##")
        THEN q + 21
        ELSE 0

\* fixRegex.MatchString(firstLine), the same fixPattern in both variants
fixRegexMatchAnyCase(firstLine) ==
    LET e == headerEnd(firstLine)
    IN  /\ e > 0
        /\ \E f \in {"fix", "Fix", "FIX"} : HasPrefixAt(firstLine, e, " " \o f)

fixRegexMatch(firstLine) ==
    LET e == headerEnd(firstLine)
    IN  e > 0 /\ HasPrefixAt(firstLine, e, " fix")

\* part_000: commitRegex.FindStringSubmatch(firstLine), <<>> for no match
commitRegexFind(firstLine) ==
    LET e == headerEnd(firstLine)
        q == IndexFrom(firstLine, "'", HashLen + 3)
    IN  IF /\ e > 0
           /\ HasPrefixAt(firstLine, e, " ")
           /\ Len(firstLine) >= e + 1
           /\ IndexFrom(firstLine, "\n", e + 1) > Len(firstLine)
        THEN <<firstLine,
               SubSeq(firstLine, 1, HashLen),
               SubSeq(firstLine, HashLen + 3, q - 1),
               SubSeq(firstLine, q + 2, e - 1),
               SubSeq(firstLine, e + 1, Len(firstLine))>>
        ELSE <<>>

----------------------------------------------------------------------------
(* Commit record parser                                                    *)

\* CommitStats{}
EmptyCommitStats ==
    [AddedLines |-> 0, DeletedLines |-> 0, AIGRatio |-> ZeroRatio, IsFix |-> FALSE]

\* processCommit's scan for the file-change block, lines[i..]: the index of
\* the first file-change line (fileChangeStartIdx keeps its initial value,
\* the second line, when there is none) and the message lines before it
RECURSIVE scanMessage(_, _, _)
scanMessage(lines, i, messageLines) ==
    IF i > Len(lines) THEN [start |-> 2, messageLines |-> messageLines]
    ELSE IF lines[i] = "" THEN scanMessage(lines, i + 1, messageLines)
    ELSE IF isFileChangeLine(lines[i])
         THEN [start |-> i, messageLines |-> messageLines]
    ELSE scanMessage(lines, i + 1, Append(messageLines, lines[i]))

\* processCommit after the identity line is parsed, the same code in both
\* variants: message assembly, ratio and fix extraction, the file-change sum
commitStatsOf(lines, message) ==
    LET sc          == scanMessage(lines, 2, <<message>>)
        fullMessage == Join(sc.messageLines, "\n")
        sum         == sumFileChanges(lines, sc.start)
    IN  [AddedLines   |-> sum.added,
         DeletedLines |-> sum.deleted,
         AIGRatio     |-> extractAIGRatio(fullMessage),
         IsFix        |-> fixRegexMatch(lines[1])]

\* main.go: processCommit, which returns (CommitStats, author, email)
processCommit(commit) ==
    LET lines == Split(commit, "\n")
        parts == SplitN(lines[1], " ", 5)
    IN  IF Len(parts) < 5
        THEN [stats |-> EmptyCommitStats, author |-> "", email |-> ""]
        ELSE [stats  |-> commitStatsOf(lines, parts[5]),
              author |-> Trim(parts[2], "'"),
              email  |-> parts[3]]

\* part_000: processCommit, which returns CommitStats
processCommitByName(commit) ==
    LET lines   == Split(commit, "\n")
        matches == commitRegexFind(lines[1])
    IN  IF Len(matches) < 5 THEN EmptyCommitStats
        ELSE commitStatsOf(lines, matches[5])

----------------------------------------------------------------------------
(* Aggregator                                                              *)

\* int(math.Round(float64(n) * ratio)): half away from zero
roundMul(n, ratio) ==
    LET p == n * ratio.num
        d == ratio.den
    IN  IF p >= 0 THEN (2 * p + d) \div (2 * d)
        ELSE 0 - ((2 * (0 - p) + d) \div (2 * d))

\* main.go: updateAuthorStats, the map after the call
updateAuthorStatsOverwrite(m, author, email, commitStats) ==
    (email :> [Name                |-> author,
               Email               |-> email,
               TotalAddedLines     |-> commitStats.AddedLines,
               TotalDeletedLines   |-> commitStats.DeletedLines,
               TotalAIAddedLines   |-> roundMul(commitStats.AddedLines, commitStats.AIGRatio),
               TotalAIDeletedLines |-> roundMul(commitStats.DeletedLines, commitStats.AIGRatio),
               FixCount            |-> IF commitStats.IsFix THEN 1 ELSE 0,
               FixAndAIGCount      |-> IF commitStats.IsFix /\ commitStats.AIGRatio.num > 0
                                       THEN 1 ELSE 0]) @@ m

updateAuthorStatsAnyRatio(m, author, email, commitStats) ==
    LET old == IF email \in DOMAIN m THEN m[email]
               ELSE [Name |-> author, Email |-> email,
                     TotalAddedLines |-> 0, TotalDeletedLines |-> 0,
                     TotalAIAddedLines |-> 0, TotalAIDeletedLines |-> 0,
                     FixCount |-> 0, FixAndAIGCount |-> 0]
        fix == IF commitStats.IsFix THEN 1 ELSE 0
    IN  (email :> [old EXCEPT
            !.TotalAddedLines     = @ + commitStats.AddedLines,
            !.TotalDeletedLines   = @ + commitStats.DeletedLines,
            !.TotalAIAddedLines   = @ + roundMul(commitStats.AddedLines, commitStats.AIGRatio),
            !.TotalAIDeletedLines = @ + roundMul(commitStats.DeletedLines, commitStats.AIGRatio),
            !.FixCount            = @ + fix,
            !.FixAndAIGCount      = @ + fix]) @@ m

updateAuthorStats(m, author, email, commitStats) ==
    LET old == IF email \in DOMAIN m THEN m[email]
               ELSE [Name |-> author, Email |-> email,
                     TotalAddedLines |-> 0, TotalDeletedLines |-> 0,
                     TotalAIAddedLines |-> 0, TotalAIDeletedLines |-> 0,
                     FixCount |-> 0, FixAndAIGCount |-> 0]
        fix == IF commitStats.IsFix THEN 1 ELSE 0
        aig == IF commitStats.IsFix /\ commitStats.AIGRatio.num > 0 THEN 1 ELSE 0
    IN  (email :> [old EXCEPT
            !.TotalAddedLines     = @ + commitStats.AddedLines,
            !.TotalDeletedLines   = @ + commitStats.DeletedLines,
            !.TotalAIAddedLines   = @ + roundMul(commitStats.AddedLines, commitStats.AIGRatio),
            !.TotalAIDeletedLines = @ + roundMul(commitStats.DeletedLines, commitStats.AIGRatio),
            !.FixCount            = @ + fix,
            !.FixAndAIGCount      = @ + aig]) @@ m

\* a Go map[string]int read: the zero value for a missing key
Get(m, k) == IF k \in DOMAIN m THEN m[k] ELSE 0

\* stats[k] += n
AddTo(m, k, n) == (k :> Get(m, k) + n) @@ m

\* part_000: updateStats, the map after the call
updateStats(m, commitStats) ==
    LET m1 == AddTo(m, "totalAddedLines", commitStats.AddedLines)
        m2 == AddTo(m1, "totalDeletedLines", commitStats.DeletedLines)
        m3 == AddTo(m2, "totalAIAddedLines",
                    roundMul(commitStats.AddedLines, commitStats.AIGRatio))
        m4 == AddTo(m3, "totalAIDeletedLines",
                    roundMul(commitStats.DeletedLines, commitStats.AIGRatio))
        m5 == IF commitStats.IsFix THEN AddTo(m4, "fixCount", 1) ELSE m4
    IN  IF commitStats.IsFix /\ commitStats.AIGRatio.num > 0
        THEN AddTo(m5, "fixAndAIGCount", 1)
        ELSE m5

----------------------------------------------------------------------------
(* Commit splitter                                                         *)

\* splitCommits' loop over lines[i..], with the chunks closed so far and the
\* text of currentCommit
RECURSIVE splitLoop(_, _, _, _)
splitLoop(lines, i, closed, currentCommit) ==
    IF i > Len(lines)
    THEN IF Len(currentCommit) > 0 THEN Append(closed, currentCommit) ELSE closed
    ELSE IF lines[i] = "" THEN splitLoop(lines, i + 1, closed, currentCommit)
    ELSE LET s     == Fields(lines[i])
             close == Len(s) > 0 /\ Len(s[1]) = HashLen /\ Len(currentCommit) > 0
             cur   == IF close THEN "" ELSE currentCommit
         IN  splitLoop(lines, i + 1,
                       IF close THEN Append(closed, currentCommit) ELSE closed,
                       IF Len(cur) > 0 THEN cur \o "\n" \o lines[i] ELSE lines[i])

splitCommits(text) == splitLoop(Split(text, "\n"), 1, <<>>, "")

----------------------------------------------------------------------------
(* The pipeline: main() from runGitCommand's return on                     *)

MaxCommits == 2

Variants == {"email", "name"}

HashA == "aaaaaaaaaaaaaaaaaaaaaaaaaaaaaaaaaaaaaaaa"

HashB == "0123456789abcdef0123456789abcdef01234567"

\* a separator line of 40 dashes, as commit bodies hold them
Dashes == "----------------------------------------"

TimeStamp == "2024-01-01 10:00:00"

\* the identity line git prints for the variant's --pretty=format
IdLine(v, hash, author, email, head) ==
    hash \o " '" \o author \o "' "
         \o (IF v = "email" THEN email \o " " ELSE "")
         \o TimeStamp \o " " \o head

\* the commits of the log the run reads, as git prints them for the variant
Scenario(v) ==
    IdLine(v, HashA, "Alice", "alice@x.io", "Fix bug AIG: 0.5") \o "\n10\t2\tmain.go"

ChunkMenu(v) ==
    { Scenario(v),
      IdLine(v, HashB, "Bob", "bob@x.io", "fix bug") \o "\n3\t1\tapi.go",
      IdLine(v, HashA, "Alice", "alice@x.io", "feat: list") \o "\n" \o Dashes
          \o "\n1\t1\tx.ts",
      IdLine(v, HashB, "Bob", "bob@x.io", "docs") \o "\n" \o HashA,
      IdLine(v, HashA, "O'Neil", "on@x.io", "fix typo AIG: 1") \o "\n2\t2\ta.js" }

SeqsUpTo(S, n) == UNION { [1..k -> S] : k \in 0..n }

Init ==
    /\ variant \in Variants
    /\ chunks \in SeqsUpTo(ChunkMenu(variant), MaxCommits)
    /\ output = Join(chunks, "\n")
    /\ pc = "split"
    /\ commits = <<>>
    /\ idx = 0
    /\ authorStats = <<>>
    /\ stats = <<>>
    /\ folded = <<>>
    /\ pending = <<>>
    /\ arg = ""
    /\ ret = ""

\* main: commits := splitCommits(output)
SplitCommits ==
    /\ pc = "split"
    /\ commits' = splitCommits(output)
    /\ pc' = "analyze"
    /\ UNCHANGED <<variant, chunks, output, idx, authorStats, stats, folded,
                   pending, arg, ret>>

\* analyzeCommits: one iteration of its loop over commits
AnalyzeCommit ==
    /\ pc = "analyze"
    /\ idx < Len(commits)
    /\ idx' = idx + 1
    /\ LET commit == commits[idx + 1]
           r      == IF variant = "email" THEN processCommit(commit)
                     ELSE [stats  |-> processCommitByName(commit),
                           author |-> "", email |-> ""]
       IN  IF commit = ""
           THEN UNCHANGED <<authorStats, stats, folded>>
           ELSE /\ folded' = Append(folded, [commit |-> commit, stats |-> r.stats,
                                             author |-> r.author, email |-> r.email])
                /\ IF variant = "email"
                   THEN /\ authorStats' = updateAuthorStats(authorStats, r.author,
                                                            r.email, r.stats)
                        /\ stats' = stats
                   ELSE /\ stats' = updateStats(stats, r.stats)
                        /\ authorStats' = authorStats
    /\ UNCHANGED <<variant, pc, chunks, output, commits, pending, arg, ret>>

\* analyzeCommits returns and main prints the report
PrintStatistics ==
    /\ pc = "analyze"
    /\ idx = Len(commits)
    /\ pc' = "done"
    /\ UNCHANGED <<variant, chunks, output, commits, idx, authorStats, stats,
                   folded, pending, arg, ret>>

Next == SplitCommits \/ AnalyzeCommit \/ PrintStatistics

Spec == Init /\ [][Next]_vars

----------------------------------------------------------------------------
(* Vocabulary of the properties                                            *)

FirstLine(chunk) == Split(chunk, "\n")[1]

\* a commit-start marker: the first whitespace-delimited token of the line
\* is 40 characters long and hexadecimal
MarkerLine(line) ==
    LET f == Fields(line)
    IN  /\ Len(f) > 0
        /\ Len(f[1]) = 40
        /\ \A k \in 1..40 : Ch(f[1], k) \in LowerHex

\* the identity-line shape of variant v:
\*   "name"   <40-hex-id> '<author-name>' <YYYY-MM-DD HH:MM:SS> <message-head>
\*   "email"  <40-hex-id> '<author-name>' <author-email> <YYYY-MM-DD HH:MM:SS>
\*            <message-head>
\* The value is the position the message head starts at, 0 when the line has
\* not that shape.
IdentityHead(v, line) ==
    LET nameEnd == IF v = "email" THEN Scan(line, 42, {" "}, TRUE) - 1
                   ELSE IndexFrom(line, "'", 43)
        tsSpace == IF v = "email" THEN Scan(line, nameEnd + 2, {" "}, TRUE)
                   ELSE nameEnd + 1
    IN  IF /\ Len(line) >= 44
           /\ \A k \in 1..40 : Ch(line, k) \in LowerHex
           /\ Ch(line, 41) = " "
           /\ Ch(line, 42) = "'"
           /\ nameEnd >= 44
           /\ nameEnd <= Len(line)
           /\ Ch(line, nameEnd) = "'"
           /\ (v = "email" => tsSpace > nameEnd + 2)
           /\ HasMaskAt(line, tsSpace, " ####-##-## ##:##:## ")
           /\ Len(line) >= tsSpace + 21
        THEN tsSpace + 21
        ELSE 0

Malformed(v, chunk) == IdentityHead(v, FirstLine(chunk)) = 0

\* a well-formed chunk: an identity line first, then lines none of which is
\* blank (the splitter keeps no blank line) or starts with a 40-hex token
WellFormedChunk(v, chunk) ==
    LET lines == Split(chunk, "\n")
    IN  /\ IdentityHead(v, lines[1]) > 0
        /\ \A i \in 2..Len(lines) : lines[i] # "" /\ ~MarkerLine(lines[i])

\* the totals of the single bucket of part_000, read as the report reads them
Totals(m) ==
    [k \in {"totalAddedLines", "totalDeletedLines", "totalAIAddedLines",
            "totalAIDeletedLines", "fixCount", "fixAndAIGCount"} |-> Get(m, k)]

----------------------------------------------------------------------------
(* Properties of the pipeline                                              *)

\* C2: a malformed commit chunk is skipped: the loop iteration that folds it
\* leaves the author-statistics map exactly as it was (no entry created, no
\* total changed) and moves on to the next chunk.
C2_MalformedChunkSkipped ==
    [][ (/\ pc = "analyze"
         /\ idx < Len(commits)
         /\ Malformed(variant, commits[idx + 1]))
        => (/\ authorStats' = authorStats
            /\ Totals(stats') = Totals(stats)
            /\ idx' = idx + 1) ]_vars

\* C3: in both identity-line shapes, a commit is classified isFix exactly
\* when its identity line carries the literal token fix right after the
\* time stamp.
C3_FixTokenClassified ==
    \A k \in 1..Len(folded) :
        LET line == FirstLine(folded[k].commit)
            h    == IdentityHead(variant, line)
        IN  h > 0 => (folded[k].stats.IsFix <=> HasPrefixAt(line, h, "fix"))

\* the run of the end-to-end scenario: part_000 reads the single chunk
\* <40 x a> 'Alice' 2024-01-01 10:00:00 Fix bug AIG: 0.5 / 10 2 main.go
C4_ScenarioDone ==
    /\ variant = "name"
    /\ chunks = <<Scenario("name")>>
    /\ pc = "done"

\* C4 as stated: the scenario yields CommitStats{10, 2, 0.5, isFix true}
\* and the totals 10, 2, 5, 1 with fixCount 1 and fixAndAIGCount 1.
C4_ScenarioAsStated ==
    C4_ScenarioDone =>
        /\ Len(folded) = 1
        /\ folded[1].stats = [AddedLines |-> 10, DeletedLines |-> 2,
                              AIGRatio |-> [num |-> 5, den |-> 10], IsFix |-> TRUE]
        /\ Totals(stats) = [totalAddedLines |-> 10, totalDeletedLines |-> 2,
                            totalAIAddedLines |-> 5, totalAIDeletedLines |-> 1,
                            fixCount |-> 1, fixAndAIGCount |-> 1]

\* C4 amended: the message head is `Fix bug`, not the literal token `fix`,
\* so the scenario yields CommitStats{10, 2, 0.5, isFix false} and the totals
\* 10, 2, 5, 1 with fixCount 0 and fixAndAIGCount 0.
C4_ScenarioAmended ==
    C4_ScenarioDone =>
        /\ Len(folded) = 1
        /\ folded[1].stats = [AddedLines |-> 10, DeletedLines |-> 2,
                              AIGRatio |-> [num |-> 5, den |-> 10], IsFix |-> FALSE]
        /\ Totals(stats) = [totalAddedLines |-> 10, totalDeletedLines |-> 2,
                            totalAIAddedLines |-> 5, totalAIDeletedLines |-> 1,
                            fixCount |-> 0, fixAndAIGCount |-> 0]

\* C5: splitCommits starts a chunk only at a commit-start marker: every chunk
\* begins with a marker line (so no other line closed the chunk before it),
\* and a text without a marker line yields no chunk.
C5_ChunksStartAtMarkers ==
    pc # "split" =>
        /\ \A k \in 1..Len(commits) : MarkerLine(FirstLine(commits[k]))
        /\ LET lines == Split(output, "\n")
           IN  (\A i \in 1..Len(lines) : ~MarkerLine(lines[i])) => commits = <<>>

\* C6: joining well-formed chunks with newlines and splitting the result
\* gives back the chunks, in order.
C6_SplitJoinRoundTrip ==
    (/\ pc # "split"
     /\ \A k \in 1..Len(chunks) : WellFormedChunk(variant, chunks[k]))
        => commits = chunks

----------------------------------------------------------------------------
(* The aggregation fold on its own: a collection of processCommit results  *)
(* is folded into an empty accumulator, in any order                       *)

MaxFold == 2

Half == [num |-> 5, den |-> 10]

\* results processCommit returns: line counts, a ratio that is 0, inside
\* (0, 1] or above 1, and the fix flag
StatsMenu ==
    { [AddedLines |-> 10, DeletedLines |-> 2, AIGRatio |-> Half, IsFix |-> TRUE],
      [AddedLines |-> 3, DeletedLines |-> 1, AIGRatio |-> ZeroRatio, IsFix |-> TRUE],
      [AddedLines |-> 1, DeletedLines |-> 1, AIGRatio |-> Half, IsFix |-> FALSE],
      [AddedLines |-> 5, DeletedLines |-> 0, AIGRatio |-> [num |-> 15, den |-> 10],
       IsFix |-> FALSE] }

\* two names under one e-mail address, and a second address
AuthorMenu ==
    { [author |-> "Alice", email |-> "alice@x.io"],
      [author |-> "Al", email |-> "alice@x.io"],
      [author |-> "Bob", email |-> "bob@x.io"] }

FoldMenu ==
    { [commit |-> "", stats |-> st, author |-> a.author, email |-> a.email] :
        st \in StatsMenu, a \in AuthorMenu }

InitFold ==
    /\ variant \in Variants
    /\ arg \in SeqsUpTo(FoldMenu, MaxFold)
    /\ pending = arg
    /\ pc = "fold"
    /\ chunks = <<>>
    /\ output = ""
    /\ commits = <<>>
    /\ idx = 0
    /\ authorStats = <<>>
    /\ stats = <<>>
    /\ folded = <<>>
    /\ ret = ""

Remove(seq, i) == SubSeq(seq, 1, i - 1) \o SubSeq(seq, i + 1, Len(seq))

\* one call of updateAuthorStats (main.go) or updateStats (part_000), on any
\* of the commits not folded yet
FoldCommit ==
    /\ pc = "fold"
    /\ \E i \in 1..Len(pending) :
          LET c == pending[i]
          IN  /\ pending' = Remove(pending, i)
              /\ folded' = Append(folded, c)
              /\ IF variant = "email"
                 THEN /\ authorStats' = updateAuthorStats(authorStats, c.author,
                                                          c.email, c.stats)
                      /\ stats' = stats
                 ELSE /\ stats' = updateStats(stats, c.stats)
                      /\ authorStats' = authorStats
    /\ UNCHANGED <<variant, pc, chunks, output, commits, idx, arg, ret>>

NextFold == FoldCommit

SpecFold == InitFold /\ [][NextFold]_vars

\* the six totals of an AuthorStats
AuthorTotals(a) ==
    <<a.TotalAddedLines, a.TotalDeletedLines, a.TotalAIAddedLines,
      a.TotalAIDeletedLines, a.FixCount, a.FixAndAIGCount>>

\* the fold of a collection in the order it is given
RECURSIVE FoldAuthors(_, _)
FoldAuthors(m, seq) ==
    IF seq = <<>> THEN m
    ELSE FoldAuthors(updateAuthorStats(m, seq[1].author, seq[1].email, seq[1].stats),
                     Tail(seq))

RECURSIVE FoldBucket(_, _)
FoldBucket(m, seq) ==
    IF seq = <<>> THEN m
    ELSE FoldBucket(updateStats(m, seq[1].stats), Tail(seq))

\* C7: aggregation is order-independent: whatever the order the collection
\* was folded in, the author keys and each key's six totals are those of the
\* fold in the order given.
C7_FoldOrderIndependent ==
    pending = <<>> =>
        IF variant = "email"
        THEN /\ DOMAIN authorStats = DOMAIN FoldAuthors(<<>>, arg)
             /\ \A e \in DOMAIN authorStats :
                   AuthorTotals(authorStats[e]) = AuthorTotals(FoldAuthors(<<>>, arg)[e])
        ELSE Totals(stats) = Totals(FoldBucket(<<>>, arg))

\* two commits of one author, folded in the other order than given
C7_FoldedOutOfOrder ==
    /\ pending = <<>>
    /\ Len(arg) = 2
    /\ arg[1] # arg[2]
    /\ arg[1].email = arg[2].email
    /\ folded = <<arg[2], arg[1]>>

\* the folded commits of key e (of the single bucket in part_000)
FoldedOf(e) ==
    {k \in 1..Len(folded) : variant = "email" => folded[k].email = e}

FixCommits(e) == Cardinality({k \in FoldedOf(e) : folded[k].stats.IsFix})

FixAndAIGCommits(e) ==
    Cardinality({k \in FoldedOf(e) :
                    folded[k].stats.IsFix /\ folded[k].stats.AIGRatio.num > 0})

\* C8: after any sequence of folds, each author's fixCount is the number of
\* that author's folded commits with isFix, fixAndAIGCount the number of
\* those with isFix and aiRatio > 0, and 0 <= fixAndAIGCount <= fixCount.
C8_FixCounters ==
    /\ \A e \in DOMAIN authorStats :
          /\ authorStats[e].FixCount = FixCommits(e)
          /\ authorStats[e].FixAndAIGCount = FixAndAIGCommits(e)
          /\ 0 <= authorStats[e].FixAndAIGCount
          /\ authorStats[e].FixAndAIGCount <= authorStats[e].FixCount
    /\ variant = "name" =>
          /\ Get(stats, "fixCount") = FixCommits("")
          /\ Get(stats, "fixAndAIGCount") = FixAndAIGCommits("")
          /\ 0 <= Get(stats, "fixAndAIGCount")
          /\ Get(stats, "fixAndAIGCount") <= Get(stats, "fixCount")

\* an author with a fix commit of ratio 0 and a fix commit of ratio > 0
\* folded: fixCount 2, fixAndAIGCount 1
C8_FixWithAndWithoutAIG ==
    /\ variant = "email"
    /\ \E e \in DOMAIN authorStats :
          /\ authorStats[e].FixCount = 2
          /\ authorStats[e].FixAndAIGCount = 1
          /\ \E k \in 1..Len(folded) :
                /\ folded[k].email = e
                /\ folded[k].stats.IsFix
                /\ folded[k].stats.AIGRatio = ZeroRatio

----------------------------------------------------------------------------
(* processCommit on a commit with one line in its file-change block        *)

\* the two count fields of a numstat line: the binary marker or a number
CountFields == {"-", "0", "5", "12"}

Paths ==
    {"main.go", "api/foo.pb.go", "api/foo.pb.validate.go", "README.md",
     "image.png", "web/app.ts", "Makefile", "web/style.scss"}

ChangeLines ==
    { a \o "\t" \o d \o "\t" \o path :
        a \in CountFields, d \in CountFields, path \in Paths }

InitChange ==
    /\ variant \in Variants
    /\ arg \in ChangeLines
    /\ pc = "call"
    /\ ret = ""
    /\ chunks = <<>>
    /\ output = ""
    /\ commits = <<>>
    /\ idx = 0
    /\ authorStats = <<>>
    /\ stats = <<>>
    /\ folded = <<>>
    /\ pending = <<>>

\* processCommit on the commit whose file-change block is the line arg; the
\* result also holds what isValidFile answers for the line's path
ProcessChange ==
    /\ pc = "call"
    /\ LET commit == IdLine(variant, HashA, "Alice", "alice@x.io", "feat: list")
                        \o "\n" \o arg
       IN  ret' = [stats |-> IF variant = "email" THEN processCommit(commit).stats
                             ELSE processCommitByName(commit),
                   valid |-> isValidFile(parseFileChange(arg).fileName,
                                         includeExts, excludeExts)]
    /\ pc' = "ret"
    /\ UNCHANGED <<variant, chunks, output, commits, idx, authorStats, stats,
                   folded, pending, arg>>

NextChange == ProcessChange

SpecChange == InitChange /\ [][NextChange]_vars

\* the path ends in one of the suffixes of a comma-separated list
EndsInOneOf(path, list) ==
    \E k \in 1..Len(Split(list, ",")) : HasSuffix(path, Split(list, ",")[k])

\* C1: the extension filter with deny-list precedence: a path that ends in a
\* deny-listed suffix is rejected although .go is allow-listed, a path with
\* no allow-listed extension is rejected, any other path is accepted; and a
\* line for a deny-listed path adds nothing to the commit's counts.
C1_DenyListPrecedence ==
    pc = "ret" =>
        LET path   == Fields(arg)[3]
            denied == EndsInOneOf(path, ".pb.go,.pb.validate.go")
            allow  == EndsInOneOf(path, ".html,.vue,.js,.ts,.tsx,.css,.scss,.cjs,.go,.php,.yaml,.proto")
        IN  /\ ret.valid = (allow /\ ~denied)
            /\ denied => ret.stats.AddedLines = 0 /\ ret.stats.DeletedLines = 0

\* C9: a file-change line with the binary marker - in either of its first
\* two fields adds 0 to both counts of its commit, whatever the other field
\* and the path are.
C9_BinaryLineAddsNothing ==
    pc = "ret" =>
        LET f == Fields(arg)
        IN  (f[1] = "-" \/ f[2] = "-")
                => ret.stats.AddedLines = 0 /\ ret.stats.DeletedLines = 0

----------------------------------------------------------------------------
(* extractAIGRatio on commit messages                                      *)

TagPrefixes == {"", "Fix bug ", "feat: list\n"}

Tags == {"AIG:", "aig:", "AIG", ""}

TagSpaces == {"", " ", "\t "}

TagValues ==
    {"0.5", "1.5", "0", "30", "0.25", ".5", "-0.3", "1.2.3", ".", "abc"}

TagSuffixes == {"", " done", ".", "\nmore"}

MessageOf(a) == a.prefix \o a.tag \o a.space \o a.value \o a.suffix

InitAIG ==
    /\ arg \in [prefix : TagPrefixes, tag : Tags, space : TagSpaces,
                value : TagValues, suffix : TagSuffixes]
    /\ pc = "call"
    /\ ret = ""
    /\ variant = "email"
    /\ chunks = <<>>
    /\ output = ""
    /\ commits = <<>>
    /\ idx = 0
    /\ authorStats = <<>>
    /\ stats = <<>>
    /\ folded = <<>>
    /\ pending = <<>>

ExtractAIG ==
    /\ pc = "call"
    /\ ret' = extractAIGRatio(MessageOf(arg))
    /\ pc' = "ret"
    /\ UNCHANGED <<variant, chunks, output, commits, idx, authorStats, stats,
                   folded, pending, arg>>

NextAIG == ExtractAIG

SpecAIG == InitAIG /\ [][NextAIG]_vars

\* the value of the tag of message a: the characters after `AIG:` and its
\* white space up to the first that is neither a digit nor a dot
TagToken(a) == a.value \o (IF a.suffix = "." THEN "." ELSE "")

\* the well-formed non-negative decimal numbers among the tag values drawn,
\* with the ratio each denotes
Decimal ==
    [t \in {"0.5", "1.5", "0", "30", "0.25"} |->
        CASE t = "0.5"  -> [num |-> 5, den |-> 10]
          [] t = "1.5"  -> [num |-> 15, den |-> 10]
          [] t = "0"    -> [num |-> 0, den |-> 1]
          [] t = "30"   -> [num |-> 30, den |-> 1]
          [] t = "0.25" -> [num |-> 25, den |-> 100]]

\* values that are no number: negative, no digit, two dots, letters
NotANumber ==
    {"-0.3", "-0.3.", "1.2.3", "1.2.3.", ".", "..", "abc", "abc.",
     "0.5.", "1.5.", "0.25.", ".5."}

\* C10: extractAIGRatio never returns a negative value; it returns the tagged
\* value, unclamped, when the tag holds a well-formed non-negative decimal
\* number, and 0 when the tag is absent, negative or no number.
C10_RatioOfTag ==
    pc = "ret" =>
        /\ ret.num >= 0
        /\ ret.den > 0
        /\ (arg.tag = "AIG:" /\ TagToken(arg) \in DOMAIN Decimal)
              => ret = Decimal[TagToken(arg)]
        /\ arg.tag # "AIG:" => ret = ZeroRatio
        /\ TagToken(arg) \in NotANumber => ret = ZeroRatio

\* a tag with a value above 1, after white space, returned as it is
C10_UnclampedTag ==
    /\ pc = "ret"
    /\ arg.tag = "AIG:"
    /\ arg.space = "\t "
    /\ arg.value = "1.5"
    /\ ret = [num |-> 15, den |-> 10]

----------------------------------------------------------------------------
(* processCommit on a commit with any lines after its identity line        *)

MaxBody == 2

\* lines a commit holds after its identity line: message continuations
\* (plain, or with a number as second word), numstat lines, a blank line
BodyLines ==
    {"see the ticket", "fix 2 bugs in main.go", "10\t2\tmain.go",
     "-\t-\timage.png", "3\t1\tREADME.md", ""}

InitBlock ==
    /\ variant \in Variants
    /\ arg \in SeqsUpTo(BodyLines, MaxBody)
    /\ pc = "call"
    /\ ret = ""
    /\ chunks = <<>>
    /\ output = ""
    /\ commits = <<>>
    /\ idx = 0
    /\ authorStats = <<>>
    /\ stats = <<>>
    /\ folded = <<>>
    /\ pending = <<>>

\* processCommit on the commit whose lines after the identity line are arg
ProcessBlock ==
    /\ pc = "call"
    /\ LET commit == Join(<<IdLine(variant, HashA, "Alice", "alice@x.io",
                                   "feat: list")>> \o arg, "\n")
       IN  ret' = IF variant = "email" THEN processCommit(commit).stats
                  ELSE processCommitByName(commit)
    /\ pc' = "ret"
    /\ UNCHANGED <<variant, chunks, output, commits, idx, authorStats, stats,
                   folded, pending, arg>>

NextBlock == ProcessBlock

SpecBlock == InitBlock /\ [][NextBlock]_vars

\* what the lines i.. of a commit add when only the lines that pass
\* isFileChangeLine and the extension filter count
RECURSIVE QualifyingSum(_, _)
QualifyingSum(lines, i) ==
    IF i > Len(lines) THEN [added |-> 0, deleted |-> 0]
    ELSE LET f    == Fields(lines[i])
             r    == QualifyingSum(lines, i + 1)
             adds == /\ isFileChangeLine(lines[i])
                     /\ Len(f) >= 3
                     /\ isValidFile(parseFileChange(lines[i]).fileName,
                                    includeExts, excludeExts)
         IN  IF adds
             THEN [added   |-> r.added + Atoi(f[1]).val,
                   deleted |-> r.deleted + Atoi(f[2]).val]
             ELSE r

\* C11: only lines that pass isFileChangeLine add to a commit's counts:
\* processCommit's addedLines and deletedLines are the sums over the
\* qualifying, extension-accepted lines, also when the commit has no
\* file-change line at all.
C11_OnlyFileChangeLinesCount ==
    pc = "ret" =>
        /\ ret.AddedLines = QualifyingSum(arg, 1).added
        /\ ret.DeletedLines = QualifyingSum(arg, 1).deleted

====
